---- MODULE Spec2Model ----
(***************************************************************************)
(* Input-to-camera control core of the neon solar system viewer:           *)
(*   - HandController (src/unnamed/part_000, lines 1-209): webcam          *)
(*     life cycle, the video-sample loop and the gesture classifier;       *)
(*   - App (src/types.ts, lines 41-124): control mode, focus target and    *)
(*     the live gesture cell (gestureRef / handleGesture);                 *)
(*   - CameraController (src/unnamed/part_000, lines 444-617): the         *)
(*     per-frame camera state machine.                                     *)
(*                                                                         *)
(* Numbers.  JavaScript numbers are modelled in fixed point:               *)
(*   - landmark coordinates, gesture values, angles (radians) and the      *)
(*     hand zoom radius are integers counting thousandths;                 *)
(*   - camera coordinates are integers counting tenths of a world unit;    *)
(*   - time is in milliseconds.                                            *)
(* Rounding of IEEE doubles is not modelled.                               *)
(***************************************************************************)
EXTENDS Integers, Sequences, FiniteSets, TLC

VARIABLES
    controlMode,       \* App: useState<ControlMode>
    focusedBody,       \* App: useState<string | null>
    gestureRef,        \* App: gestureRef.current, the live gesture
    isLoaded,          \* HandController: "loading" | "ready" | "error"
    lastHandPos,       \* HandController: lastHandPos.current  (<<>> is null)
    lastPinchDist,     \* HandController: lastPinchDist.current (<<>> is null)
    gestureHoldStart,  \* HandController: gestureHoldStart.current
    srcObject,         \* videoRef.current.srcObject holds a live stream
    orphanStreams,     \* live streams no longer referenced by srcObject
    pendingMedia,      \* getUserMedia promises not yet settled (closures)
    listeners,         \* 'loadeddata' listeners on the video (closures)
    loadPending,       \* the video has a new stream and has not fired loadeddata
    refLoop,           \* pending frame callback whose id is requestRef.current
    otherLoops,        \* pending frame callbacks requestRef no longer names
    handState,         \* CameraController: handState.current
    cameraPos,         \* camera.position
    controls,          \* OrbitControls: target and enabled
    autoOrbit,         \* CameraController: autoOrbitRef.current
    meshPos,           \* Planet: meshRef.current.position (x, z) of each body
    tween,             \* gsap tweens started by the focus effect
    now,               \* wall clock (Date.now / animation clock), ms
    lastFrameAt,       \* time of the previous render frame
    simulationSpeed,   \* App: useState<number>, thousandths
    lastTick,          \* observation: the most recent predictWebcam call
    resetSince         \* observation: <<t>> when the focus target was
                       \* cleared at t and no input has arrived since

vars == << controlMode, focusedBody, gestureRef, isLoaded, lastHandPos,
           lastPinchDist, gestureHoldStart, srcObject, orphanStreams,
           pendingMedia, listeners, loadPending, refLoop, otherLoops,
           handState, cameraPos, controls, autoOrbit, meshPos, tween, now,
           lastFrameAt, simulationSpeed, lastTick, resetSince >>

(***************************************************************************)
(* Bounds of the model                                                     *)
(***************************************************************************)
\* wall clock at mount; Date.now() is far above the 1000 ms hold threshold
StartClock == 5000
\* the model of the whole system stops the clock this many ms after mount
MaxElapsed == 600
\* the model of the classifier alone stops the clock this many ms after mount
MaxHoldElapsed == 2002
\* the model of the scene alone stops the clock this many ms after mount
MaxSceneElapsed == 4000
\* keys are modelled while the camera stays within this distance of the
\* origin, tenths
MaxCameraDistance == 7000
\* the model of the orbiting bodies stops the clock this many ms after mount
MaxOrbitElapsed == 2100
\* the model of the focus tracking stops the clock this many ms after mount
MaxTrackElapsed == 4200
\* the model of a hand zoom session stops the clock this many ms after mount
MaxZoomElapsed == 600
\* at most this many getUserMedia promises pending at once
MaxPending == 1
\* at most this many loadeddata listeners registered
MaxListeners == 1
\* at most this many video-sample callbacks pending at once
MaxLoops == 1
\* the same two bounds in the sessions that enter Hand mode more than once
MaxLeakListeners == 2
MaxLeakLoops == 2

\* time between two observed instants
Delays == {1000, 1001}

\* the same for the model of the whole system
CoarseDelays == {600}

(***************************************************************************)
(* Arithmetic helpers                                                      *)
(***************************************************************************)
Abs(x) == IF x < 0 THEN -x ELSE x

Max(a, b) == IF a > b THEN a ELSE b

Min(a, b) == IF a < b THEN a ELSE b

RECURSIVE SqrtSearch(_, _, _)
SqrtSearch(n, lo, hi) ==
    IF lo >= hi THEN lo
    ELSE LET mid == (lo + hi + 1) \div 2
         IN  IF mid * mid <= n THEN SqrtSearch(n, mid, hi)
                               ELSE SqrtSearch(n, lo, mid - 1)

\* Math.sqrt on a non-negative integer, rounded down
Sqrt(n) == SqrtSearch(n, 0, Min(n, 46340))

(***************************************************************************)
(* Types of src/types.ts and HandController                                *)
(***************************************************************************)
MOUSE == "MOUSE"
KEYBOARD == "KEYBOARD"
AUTO == "AUTO"
HAND == "HAND"

ControlMode == {MOUSE, KEYBOARD, AUTO, HAND}

\* focusedBody === null
NoFocus == "null"

\* ids of the PLANET_DATA entries the model keeps
BodyIds == {"sun", "earth"}

\* the bodies the model selects as focus target
FocusIds == {"earth"}

FocusValues == {NoFocus} \cup FocusIds

\* HandGesture: type and value; x, y are 0 for a gesture without a value,
\* ZOOM carries its number in x.
Gesture(type, x, y) == [type |-> type, x |-> x, y |-> y]

GestureNone == Gesture("NONE", 0, 0)

GestureExit == Gesture("EXIT_FOCUS", 0, 0)

(***************************************************************************)
(* Landmarks.  A hand is a function from landmark index to <<x, y>>; only  *)
(* the indices the classifier reads are kept.                              *)
(***************************************************************************)
LmIdx == {0, 4, 6, 8, 10, 12, 14, 16, 18, 20}

indexExt(landmarks) == landmarks[8][2] < landmarks[6][2]

middleExt(landmarks) == landmarks[12][2] < landmarks[10][2]

ringExt(landmarks) == landmarks[16][2] < landmarks[14][2]

pinkyExt(landmarks) == landmarks[20][2] < landmarks[18][2]

isVictory(landmarks) ==
    indexExt(landmarks) /\ middleExt(landmarks)
    /\ ~ringExt(landmarks) /\ ~pinkyExt(landmarks)

isPalmOpen(landmarks) ==
    indexExt(landmarks) /\ middleExt(landmarks)
    /\ ringExt(landmarks) /\ pinkyExt(landmarks)

isPointing(landmarks) ==
    indexExt(landmarks) /\ ~middleExt(landmarks)
    /\ ~ringExt(landmarks) /\ ~pinkyExt(landmarks)

\* wrist-to-wrist distance of the two hands
dist(landmarksList) ==
    LET hand1 == landmarksList[1][0]
        hand2 == landmarksList[2][0]
    IN  Sqrt((hand1[1] - hand2[1]) * (hand1[1] - hand2[1])
             + (hand1[2] - hand2[2]) * (hand1[2] - hand2[2]))

\* dead zone of the two-hand zoom, 0.005
ZoomDeadZone == 5
\* gain of the two-hand zoom
ZoomGain == 20
\* dead zone of the rotate gesture, 0.002
RotateDeadZone == 2
\* open palm hold threshold, ms
HoldMs == 1000

(***************************************************************************)
(* processGestures: the classifier proper.  c is the retained state        *)
(* [lastHandPos, lastPinchDist, gestureHoldStart]; t is Date.now().        *)
(* The result is the new retained state and the sequence of onGesture      *)
(* calls the tick made (empty when the tick called onGesture not at all).  *)
(***************************************************************************)
ClassifierResult(pos, pinch, hold, calls) ==
    [lastHandPos |-> pos, lastPinchDist |-> pinch,
     gestureHoldStart |-> hold, calls |-> calls]

\* twoHandZoom with an inclusive dead zone
twoHandZoomInclusive(c, landmarksList) ==
    LET d == dist(landmarksList)
        delta == d - c.lastPinchDist[1]
        calls == IF c.lastPinchDist # <<>> /\ Abs(delta) >= ZoomDeadZone
                 THEN << Gesture("ZOOM", delta * ZoomGain, 0) >>
                 ELSE << >>
    IN  ClassifierResult(<< >>, << d >>, c.gestureHoldStart, calls)

twoHandZoom(c, landmarksList) ==
    LET d == dist(landmarksList)
        delta == d - c.lastPinchDist[1]
        calls == IF c.lastPinchDist # <<>> /\ Abs(delta) > ZoomDeadZone
                 THEN << Gesture("ZOOM", delta * ZoomGain, 0) >>
                 ELSE << >>
    IN  ClassifierResult(<< >>, << d >>, c.gestureHoldStart, calls)

\* victoryRotate with an inclusive dead zone
victoryRotateInclusive(c, landmarks) ==
    LET wrist == landmarks[0]
        deltaX == wrist[1] - c.lastHandPos[1]
        deltaY == wrist[2] - c.lastHandPos[2]
        calls == IF c.lastHandPos # <<>>
                    /\ (Abs(deltaX) >= RotateDeadZone
                        \/ Abs(deltaY) >= RotateDeadZone)
                 THEN << Gesture("ROTATE", deltaX, deltaY) >>
                 ELSE << >>
    IN  ClassifierResult(wrist, << >>, c.gestureHoldStart, calls)

victoryRotate(c, landmarks) ==
    LET wrist == landmarks[0]
        deltaX == wrist[1] - c.lastHandPos[1]
        deltaY == wrist[2] - c.lastHandPos[2]
        calls == IF c.lastHandPos # <<>>
                    /\ (Abs(deltaX) > RotateDeadZone
                        \/ Abs(deltaY) > RotateDeadZone)
                 THEN << Gesture("ROTATE", deltaX, deltaY) >>
                 ELSE << >>
    IN  ClassifierResult(wrist, << >>, c.gestureHoldStart, calls)

\* singleHand without the reset of the hold timer after EXIT_FOCUS
singleHandNoDebounce(c, landmarks, t) ==
    LET wrist == landmarks[0]
        indexTip == landmarks[8]
    IN  IF isVictory(landmarks) THEN victoryRotate(c, landmarks)
        ELSE IF isPalmOpen(landmarks) /\ t - c.gestureHoldStart > HoldMs
        THEN ClassifierResult(c.lastHandPos, << >>, c.gestureHoldStart,
                              << GestureExit >>)
        ELSE LET hold == IF isPalmOpen(landmarks) THEN c.gestureHoldStart
                                                  ELSE t
             IN  IF isPointing(landmarks)
                 THEN ClassifierResult(wrist, << >>, hold,
                         << Gesture("FOCUS", 1000 - indexTip[1], indexTip[2]) >>)
                 ELSE ClassifierResult(wrist, << >>, hold, << >>)

singleHand(c, landmarks, t) ==
    LET wrist == landmarks[0]
        indexTip == landmarks[8]
    IN  IF isVictory(landmarks) THEN victoryRotate(c, landmarks)
        ELSE IF isPalmOpen(landmarks) /\ t - c.gestureHoldStart > HoldMs
        THEN ClassifierResult(c.lastHandPos, << >>, t, << GestureExit >>)
        ELSE LET hold == IF isPalmOpen(landmarks) THEN c.gestureHoldStart
                                                  ELSE t
             IN  IF isPointing(landmarks)
                 THEN ClassifierResult(wrist, << >>, hold,
                         << Gesture("FOCUS", 1000 - indexTip[1], indexTip[2]) >>)
                 ELSE ClassifierResult(wrist, << >>, hold, << >>)

\* the points processGestures reads of the hands it is given: the wrists of
\* two hands, the finger points of the first hand otherwise.  Reading .x or
\* .y of a point the hand does not have is a TypeError.
throws(landmarksList) ==
    IF Len(landmarksList) = 0 THEN FALSE
    ELSE IF Len(landmarksList) = 2
    THEN 0 \notin DOMAIN landmarksList[1] \/ 0 \notin DOMAIN landmarksList[2]
    ELSE ~((LmIdx \ {4}) \subseteq DOMAIN landmarksList[1])

\* processGestures without the reset of the two-hand distance in the
\* single-hand path
processGesturesKeepsPinch(c, landmarksList, t) ==
    IF Len(landmarksList) = 2
    THEN twoHandZoom(c, landmarksList)
    ELSE [singleHand(c, landmarksList[1], t)
            EXCEPT !.lastPinchDist = c.lastPinchDist]

processGestures(c, landmarksList, t) ==
    IF Len(landmarksList) = 2
    THEN twoHandZoom(c, landmarksList)
    ELSE singleHand(c, landmarksList[1], t)

\* classify without the reset of the retained positions on zero hands
classifyKeepsState(c, results, t) ==
    IF Len(results) > 0
    THEN processGestures(c, results, t)
    ELSE ClassifierResult(c.lastHandPos, c.lastPinchDist, c.gestureHoldStart,
                          << GestureNone >>)

\* the detection part of predictWebcam
classify(c, results, t) ==
    IF Len(results) > 0
    THEN processGestures(c, results, t)
    ELSE ClassifierResult(<< >>, << >>, c.gestureHoldStart, << GestureNone >>)

(***************************************************************************)
(* Vector and trigonometry helpers (THREE.Vector3, Math.sin, Math.cos)     *)
(***************************************************************************)
\* pi in thousandths of a radian
PiM == 3142

\* sin of x thousandths of a radian, in thousandths, for 0 <= x <= pi/2
sinTaylor(x) ==
    LET x2 == (x * x) \div 1000
        x3 == (x2 * x) \div 1000
        x5 == (x3 * x2) \div 1000
        x7 == (x5 * x2) \div 1000
    IN  Min(1000, x - (x3 \div 6) + (x5 \div 120) - (x7 \div 5040))

\* Math.sin: x in thousandths of a radian, result in thousandths
sin(x) ==
    LET r == x % (2 * PiM)
        s == IF r > PiM THEN r - 2 * PiM ELSE r
        a == Abs(s)
        f == IF a > PiM \div 2 THEN PiM - a ELSE a
    IN  IF s < 0 THEN -sinTaylor(f) ELSE sinTaylor(f)

\* Math.cos
cos(x) == sin(x + PiM \div 2)

Vec(x, y, z) == << x, y, z >>

\* a * b / den rounded toward zero, as a JavaScript product would be
MulDiv(a, b, den) ==
    IF a * b < 0 THEN -((-(a * b)) \div den) ELSE (a * b) \div den

\* Vector3.lerp(target, alpha) with alpha in thousandths
lerp(v, target, alpha) ==
    [i \in 1..3 |-> v[i] + MulDiv(target[i] - v[i], alpha, 1000)]

\* Vector3.length
length(v) == Sqrt(v[1] * v[1] + v[2] * v[2] + v[3] * v[3])

\* Vector3.normalize().multiplyScalar(r); normalize divides by (length || 1)
scaleTo(v, r) ==
    LET len == length(v)
    IN  IF len = 0 THEN Vec(0, 0, 0)
        ELSE [i \in 1..3 |-> MulDiv(v[i], r, len)]

\* the overview pose of the reset transition and of the initial position
DefaultPos == Vec(0, 1500, 3000)

Origin == Vec(0, 0, 0)

\* OrbitControls minDistance / maxDistance, in tenths
MinDistance == 100
MaxDistance == 6500

\* OrbitControls.update() without pointer input: the camera is put back at
\* target + offset with the offset length clamped to [minDistance, maxDistance]
controlsUpdate(pos, target) ==
    LET offset == [i \in 1..3 |-> pos[i] - target[i]]
        len == length(offset)
    IN  IF len > MaxDistance
        THEN [i \in 1..3 |-> target[i] + MulDiv(offset[i], MaxDistance, len)]
        ELSE IF len < MinDistance /\ len > 0
        THEN [i \in 1..3 |-> target[i] + MulDiv(offset[i], MinDistance, len)]
        ELSE pos

(***************************************************************************)
(* Hand branch of the CameraController frame loop                          *)
(***************************************************************************)
\* handState.zoom bounds, thousandths
ZoomMin == 50000
ZoomMax == 600000
\* rotate gain (speed)
RotateSpeed == 5

\* clampZoom without the lower limit
clampZoomNoFloor(z) == Min(ZoomMax, z)

\* Math.max(50, Math.min(600, zoom - value))
clampZoom(z) == Max(ZoomMin, Min(ZoomMax, z))

\* Math.max(0.1, Math.min(PI/2 - 0.1, rotation.y + PI/4))
clampPhi(rotY) == Max(100, Min(PiM \div 2 - 100, rotY + PiM \div 4))

\* gesture.type === 'ROTATE'
handRotate(hs, pos, gesture) ==
    LET rx == hs.rotation[1] + gesture.x * RotateSpeed
        ry == hs.rotation[2] + gesture.y * RotateSpeed
        r == hs.zoom \div 100
        phi == clampPhi(ry)
        rs == MulDiv(r, sin(phi), 1000)
        x == MulDiv(rs, sin(rx), 1000)
        z == MulDiv(rs, cos(rx), 1000)
        y == MulDiv(r, cos(phi), 1000)
    IN  [hs |-> [hs EXCEPT !.rotation = << rx, ry >>],
         pos |-> lerp(pos, Vec(x, y, z), 100)]

\* gesture.type === 'ZOOM'
handZoom(hs, pos, gesture) ==
    LET zoom == clampZoom(hs.zoom - gesture.x)
    IN  [hs |-> [hs EXCEPT !.zoom = zoom],
         pos |-> lerp(pos, scaleTo(pos, zoom \div 100), 100)]

\* gesture.type === 'FOCUS': cursor.set(x * 2 - 1, -(y * 2 - 1))
handFocus(hs, pos, gesture) ==
    [hs |-> [hs EXCEPT !.cursor = << gesture.x * 2 - 1000,
                                     -(gesture.y * 2 - 1000) >>],
     pos |-> pos]

\* the HAND branch of useFrame
handFrame(hs, pos, gesture) ==
    IF gesture.type = "ROTATE" THEN handRotate(hs, pos, gesture)
    ELSE IF gesture.type = "ZOOM" THEN handZoom(hs, pos, gesture)
    ELSE IF gesture.type = "FOCUS" THEN handFocus(hs, pos, gesture)
    ELSE [hs |-> hs, pos |-> pos]

(***************************************************************************)
(* Orbit kinematics and the other branches of the frame loop               *)
(***************************************************************************)
\* PLANET_DATA (radius and distance in tenths, speed in thousandths)
PLANET_DATA ==
    [id \in BodyIds |->
        IF id = "sun" THEN [radius |-> 120, distance |-> 0, speed |-> 0]
        ELSE [radius |-> 24, distance |-> 750, speed |-> 1000]]

\* t = elapsed * speed * simulationSpeed * 0.2, thousandths of a radian
orbitAngle(planet, elapsedMs, simSpeed) ==
    (((elapsedMs * planet.speed) \div 1000) * simSpeed) \div 5000

\* orbitPosition without the simulation speed
orbitPositionUnscaled(planet, elapsedMs, simSpeed) ==
    LET t == orbitAngle(planet, elapsedMs, 1000)
    IN  Vec(MulDiv(cos(t), planet.distance, 1000), 0,
            MulDiv(sin(t), planet.distance, 1000))

\* the position the frame loop tracks: (pX, 0, pZ)
orbitPosition(planet, elapsedMs, simSpeed) ==
    LET t == orbitAngle(planet, elapsedMs, simSpeed)
    IN  Vec(MulDiv(cos(t), planet.distance, 1000), 0,
            MulDiv(sin(t), planet.distance, 1000))

\* planetFrame with the new position added to the one the mesh had
planetFrameIncremental(mesh, data, elapsedMs, simSpeed) ==
    LET t == orbitAngle(data, elapsedMs, simSpeed)
    IN  IF data.distance > 0
        THEN << mesh[1] + MulDiv(cos(t), data.distance, 1000),
                mesh[2] + MulDiv(sin(t), data.distance, 1000) >>
        ELSE mesh

\* the frame callback of Planet: x and z of the moving group; a body at
\* distance 0 keeps the position it has
planetFrame(mesh, data, elapsedMs, simSpeed) ==
    LET t == orbitAngle(data, elapsedMs, simSpeed)
    IN  IF data.distance > 0
        THEN << MulDiv(cos(t), data.distance, 1000),
                MulDiv(sin(t), data.distance, 1000) >>
        ELSE mesh

\* the frame callbacks of all Planet components
planetFrames(mp, elapsedMs, simSpeed) ==
    [id \in BodyIds |-> planetFrame(mp[id], PLANET_DATA[id], elapsedMs, simSpeed)]

\* a group is created at the origin
InitMeshPos == [id \in BodyIds |-> << 0, 0 >>]

\* AUTO branch: autoOrbit += delta * 0.05; lerp toward the circle; update()
autoFrame(f) ==
    LET a == f.autoOrbit + f.delta \div 20
        goal == Vec(MulDiv(sin(a), 3500, 1000), 1000,
                    MulDiv(cos(a), 3500, 1000))
        p == lerp(f.pos, goal, 50)
    IN  [f EXCEPT !.autoOrbit = a,
                  !.pos = controlsUpdate(p, f.controls.target)]

\* focusedBody branch
focusFrame(f) ==
    IF f.focusedBody \notin DOMAIN PLANET_DATA THEN f
    ELSE LET planet == PLANET_DATA[f.focusedBody]
             targetPos == orbitPosition(planet, f.elapsed, f.simulationSpeed)
             target == lerp(f.controls.target, targetPos, 100)
             offset == Vec(targetPos[1] + planet.radius * 5,
                           planet.radius * 3,
                           targetPos[3] + planet.radius * 5)
             p == lerp(f.pos, offset, 50)
         IN  [f EXCEPT !.controls.target = target,
                       !.pos = controlsUpdate(p, target)]

\* last branch: controls.enabled = true; controls.update()
freeFrame(f) ==
    [f EXCEPT !.controls.enabled = TRUE,
              !.pos = controlsUpdate(f.pos, f.controls.target)]

\* HAND branch: the gesture is applied, then controls.enabled = false
handBranch(f) ==
    LET h == handFrame(f.handState, f.pos, f.gesture)
    IN  [f EXCEPT !.handState = h.hs, !.pos = h.pos,
                  !.controls.enabled = FALSE]

\* the callback of useFrame in CameraController.  f holds what the callback
\* reads: controlMode, focusedBody, gesture, handState, pos, controls,
\* autoOrbit, delta (ms), elapsed (ms) and simulationSpeed.
useFrame(f) ==
    IF f.controlMode = AUTO THEN autoFrame(f)
    ELSE IF f.controlMode = HAND THEN handBranch(f)
    ELSE IF f.focusedBody # NoFocus THEN focusFrame(f)
    ELSE freeFrame(f)

\* the frame callback of the OrbitControls component itself
dreiFrame(f) ==
    IF f.controls.enabled
    THEN [f EXCEPT !.pos = controlsUpdate(f.pos, f.controls.target)]
    ELSE f

(***************************************************************************)
(* The reset transition: gsap.to(camera.position / controls.target, 2 s)   *)
(***************************************************************************)
\* duration of the transition, ms
TweenMs == 2000

\* ease 'power3.inOut' on progress p in thousandths
power3InOut(p) ==
    IF p < 500 THEN (4 * p * p * p) \div 1000000
    ELSE LET q == 2000 - 2 * p
         IN  1000 - ((q * q * q) \div 2000000)

\* a tween is created without start values; gsap reads them at its first tick
NewTween(t) == [startAt |-> t, from |-> << >>]

\* two tweens created at the same instant and not yet started write the
\* same values, so one entry stands for both
startTween(tw, t) ==
    IF tw # << >> /\ tw[Len(tw)] = NewTween(t) THEN tw
    ELSE Append(tw, NewTween(t))

\* focusEffect without the early return in AUTO mode
focusEffectAnyMode(tw, focus, mode, t) ==
    IF focus = NoFocus THEN startTween(tw, t) ELSE tw

\* the effect 'Handle Focus Changes' for the rendered focusedBody and mode
focusEffect(tw, focus, mode, t) ==
    IF focus = NoFocus /\ mode # AUTO THEN startTween(tw, t) ELSE tw

RECURSIVE gsapTick(_, _, _, _, _)
\* one tick of the gsap ticker: every tween, oldest first, writes its value.
\* done: tweens already processed and still running
gsapTick(tw, done, pos, target, t) ==
    IF tw = << >> THEN [tween |-> done, pos |-> pos, target |-> target]
    ELSE LET cur == tw[1]
             from == IF cur.from = << >> THEN << pos, target >> ELSE cur.from
             p == Min(1000, ((t - cur.startAt) * 1000) \div TweenMs)
             e == power3InOut(p)
             np == [i \in 1..3 |->
                      from[1][i] + MulDiv(DefaultPos[i] - from[1][i], e, 1000)]
             nt == [i \in 1..3 |->
                      from[2][i] + MulDiv(Origin[i] - from[2][i], e, 1000)]
             rest == IF p >= 1000 THEN done
                     ELSE Append(done, [cur EXCEPT !.from = from])
         IN  gsapTick(Tail(tw), rest, np, nt, t)

(***************************************************************************)
(* Closures.  startWebcam, predictWebcam and the onGesture prop belong to  *)
(* the render in which the webcam effect ran; what such a closure keeps of *)
(* that render is App's focusedBody (read by handleGesture).  A closure is *)
(* therefore represented by that captured focusedBody; collections of      *)
(* closures are bags: functions from the captured value to a count.        *)
(***************************************************************************)
EmptyBag == [v \in FocusValues |-> 0]

RECURSIVE BagSizeOver(_, _)
BagSizeOver(b, S) ==
    IF S = {} THEN 0
    ELSE LET v == CHOOSE e \in S : TRUE
         IN  b[v] + BagSizeOver(b, S \ {v})

BagSize(b) == BagSizeOver(b, DOMAIN b)

BagAdd(b, v) == [b EXCEPT ![v] = @ + 1]

BagRemove(b, v) == [b EXCEPT ![v] = @ - 1]

RECURSIVE BagAddAll(_, _)
BagAddAll(b, seq) ==
    IF seq = << >> THEN b ELSE BagAddAll(BagAdd(b, seq[1]), Tail(seq))

\* number of video-sample callbacks waiting for an animation frame
LoopCount == Len(refLoop) + BagSize(otherLoops)

(***************************************************************************)
(* Landmark inputs                                                         *)
(***************************************************************************)
\* a hand with the wrist at w in the given pose: extended fingers have the
\* tip above (y smaller than) the joint, curled ones below; "level" has the
\* index tip exactly level with its joint
MkHand(w, pose) ==
    LET up == [victory |-> {8, 12}, palm |-> {8, 12, 16, 20},
               point |-> {8}, fist |-> {}]
    IN  [i \in LmIdx |->
            IF i = 0 THEN w
            ELSE IF i \in {6, 10, 14, 18} THEN << w[1], w[2] - 100 >>
            ELSE IF i \in up[pose] THEN << w[1] + 10, w[2] - 150 >>
            ELSE << w[1] + 10, w[2] - 50 >>]

Poses == {"victory", "palm", "point", "fist"}

\* an open hand of which the detector reports only the points below n
ShortHand(w, n) ==
    [i \in {j \in LmIdx : j < n} |-> MkHand(w, "palm")[i]]

\* inputs the detector is not meant to produce: a hand of 20 points, a hand
\* of no points, and three hands of which the first points
MalformedInputs ==
    { << ShortHand(<< 500, 500 >>, 20) >>,
      << ShortHand(<< 500, 500 >>, 0) >>,
      << MkHand(<< 500, 500 >>, "point"), MkHand(<< 400, 500 >>, "fist"),
         MkHand(<< 600, 500 >>, "fist") >> }

\* wrist positions of a single hand: the moves between them are (2, 2),
\* (20, 0) and (18, -2), and the opposite ones
Wrists == { << 500, 500 >>, << 502, 502 >>, << 520, 500 >> }

\* wrist of the second hand when the first is at (400, 500): the distances
\* are 100, 105 and 130
SecondWrists == { << 500, 500 >>, << 505, 500 >>, << 530, 500 >> }

\* results.landmarks of detectForVideo: zero, one or two hands
FineInputs ==
    { << >> }
    \cup { << MkHand(w, p) >> : w \in Wrists, p \in Poses }
    \cup { << MkHand(<< 400, 500 >>, "fist"), MkHand(w, "fist") >> :
             w \in SecondWrists }

CoarseInputs ==
    { << >> }
    \cup { << MkHand(w, "victory") >> : w \in {<< 500, 500 >>, << 520, 500 >>} }
    \cup { << MkHand(<< 500, 500 >>, "palm") >> }
    \cup { << MkHand(<< 400, 500 >>, "fist"), MkHand(w, "fist") >> :
             w \in {<< 500, 500 >>, << 530, 500 >>} }

(***************************************************************************)
(* One classifier tick in the state machine                                *)
(***************************************************************************)
\* what a run of classifier ticks reads and writes
World ==
    [lastHandPos |-> lastHandPos, lastPinchDist |-> lastPinchDist,
     gestureHoldStart |-> gestureHoldStart, gestureRef |-> gestureRef,
     clearFocus |-> FALSE, lastTick |-> lastTick]

\* App.handleGesture as seen by a closure that captured focusedBody = cap:
\* the calls to setFocusedBody(null) are collected in clearFocus
handleGesture(w, gesture, cap) ==
    [w EXCEPT !.gestureRef = gesture,
              !.clearFocus = @ \/ (gesture.type = "EXIT_FOCUS" /\ cap # NoFocus)]

\* a single hand showing an open palm
palmTick(results) == Len(results) = 1 /\ isPalmOpen(results[1])

\* The observation of a tick: the number of hands it was given (n) and the
\* onGesture calls it made; and about the open-palm hold: the time of the
\* first tick of the current unbroken run of open-palm ticks (holdSince),
\* the number of EXIT_FOCUS calls in that run (holdExits), the time of the
\* latest EXIT_FOCUS (lastExitAt) and the time between the latest two
\* (exitGap).  applied tells whether a frame of the Camera Controller has
\* consumed the ROTATE or ZOOM gesture that is in the gesture cell; a call
\* of onGesture writes the cell and clears it.  wrist is the wrist of the
\* hand of the tick when it was given exactly one hand.
observe(old, results, calls, t) ==
    LET exit == calls = << GestureExit >>
    IN  [ran |-> TRUE, n |-> Len(results), calls |-> calls,
         holdSince |-> IF ~palmTick(results) THEN << >>
                       ELSE IF old.holdSince = << >> THEN << t >>
                       ELSE old.holdSince,
         holdExits |-> IF ~palmTick(results) THEN 0
                       ELSE IF exit THEN old.holdExits + 1
                       ELSE old.holdExits,
         lastExitAt |-> IF exit THEN << t >> ELSE old.lastExitAt,
         exitGap |-> IF exit /\ old.lastExitAt # << >>
                     THEN << t - old.lastExitAt[1] >> ELSE old.exitGap,
         applied |-> IF calls = << >> THEN old.applied ELSE FALSE,
         wrist |-> IF Len(results) = 1 /\ 0 \in DOMAIN results[1]
                   THEN results[1][0] ELSE << >>]

\* predictWebcam up to the rescheduling
predictWebcam(w, cap, results, t) ==
    LET c == [lastHandPos |-> w.lastHandPos,
              lastPinchDist |-> w.lastPinchDist,
              gestureHoldStart |-> w.gestureHoldStart]
        r == classify(c, results, t)
        w1 == [w EXCEPT !.lastHandPos = r.lastHandPos,
                        !.lastPinchDist = r.lastPinchDist,
                        !.gestureHoldStart = r.gestureHoldStart,
                        !.lastTick = observe(w.lastTick, results, r.calls, t)]
    IN  IF r.calls = << >> THEN w1 ELSE handleGesture(w1, r.calls[1], cap)

RECURSIVE runListeners(_, _, _, _)
\* the loadeddata event calls every registered listener in turn
runListeners(w, caps, results, t) ==
    IF caps = << >> THEN w
    ELSE runListeners(predictWebcam(w, caps[1], results, t),
                      Tail(caps), results, t)

\* the state after the ticks, and after the render setFocusedBody(null)
\* causes when it changes focusedBody
Commit(w) ==
    /\ lastHandPos' = w.lastHandPos
    /\ lastPinchDist' = w.lastPinchDist
    /\ gestureHoldStart' = w.gestureHoldStart
    /\ gestureRef' = w.gestureRef
    /\ lastTick' = w.lastTick
    /\ focusedBody' = IF w.clearFocus THEN NoFocus ELSE focusedBody
    /\ tween' = IF w.clearFocus /\ focusedBody # NoFocus
                THEN focusEffect(tween, NoFocus, controlMode, now)
                ELSE tween
    /\ resetSince' = IF w.clearFocus /\ focusedBody # NoFocus THEN << now >>
                     ELSE IF w.lastTick.calls \notin {<< >>, << GestureNone >>}
                     THEN << >>
                     ELSE resetSince

(***************************************************************************)
(* Initial state: after the first render and its effects                   *)
(***************************************************************************)
NoTick ==
    [ran |-> FALSE, n |-> 0, calls |-> << >>, holdSince |-> << >>,
     holdExits |-> 0, lastExitAt |-> << >>, exitGap |-> << >>,
     applied |-> FALSE, wrist |-> << >>]

InitHandState ==
    [rotation |-> << 0, 0 >>, zoom |-> 300000, cursor |-> << 0, 0 >>,
     isFocusing |-> FALSE]

Init ==
    /\ controlMode = MOUSE
    /\ focusedBody = NoFocus
    /\ gestureRef = GestureNone
    /\ isLoaded = "loading"
    /\ lastHandPos = << >>
    /\ lastPinchDist = << >>
    /\ gestureHoldStart = 0
    /\ srcObject = FALSE
    /\ orphanStreams = 0
    /\ pendingMedia = EmptyBag
    /\ listeners = << >>
    /\ loadPending = FALSE
    /\ refLoop = << >>
    /\ otherLoops = EmptyBag
    /\ handState = InitHandState
    /\ cameraPos = DefaultPos
    /\ controls = [target |-> Origin, enabled |-> TRUE]
    /\ autoOrbit = 0
    /\ meshPos = InitMeshPos
    /\ tween = focusEffect(<< >>, NoFocus, MOUSE, StartClock)
    /\ now = StartClock
    /\ lastFrameAt = StartClock
    /\ simulationSpeed = 1000
    /\ lastTick = NoTick
    /\ resetSince = << >>

(***************************************************************************)
(* HandController: model loading and the webcam effect                     *)
(***************************************************************************)
classifierVars == << lastHandPos, lastPinchDist, gestureHoldStart >>

cameraVars == << handState, cameraPos, controls, autoOrbit, meshPos >>

\* stopWebcam: stop the tracks of srcObject and cancel requestRef.current
stopWebcam ==
    /\ srcObject' = FALSE
    /\ loadPending' = FALSE
    /\ refLoop' = << >>

\* webcamEffect without the test of isLoaded
webcamEffectAnyLoad(m, l) ==
    /\ stopWebcam
    /\ IF m = HAND
       THEN /\ BagSize(pendingMedia) < MaxPending
            /\ pendingMedia' = BagAdd(pendingMedia, focusedBody)
       ELSE pendingMedia' = pendingMedia

\* the webcam effect for a render with control mode m and model status l:
\* the cleanup of the previous run (stopWebcam), then startWebcam or
\* stopWebcam.  startWebcam leaves a getUserMedia promise pending.
webcamEffect(m, l) ==
    /\ stopWebcam
    /\ IF m = HAND /\ l = "ready"
       THEN /\ BagSize(pendingMedia) < MaxPending
            /\ pendingMedia' = BagAdd(pendingMedia, focusedBody)
       ELSE pendingMedia' = pendingMedia

\* init(): the landmark model finished loading
InitLoaded ==
    /\ isLoaded = "loading"
    /\ isLoaded' = "ready"
    /\ webcamEffect(controlMode, "ready")
    /\ UNCHANGED << controlMode, focusedBody, gestureRef, classifierVars,
                    orphanStreams, listeners, otherLoops, cameraVars, tween,
                    now, lastFrameAt, simulationSpeed, lastTick,
                    resetSince >>

\* init(): loading failed, only the debug text changes
InitFailed ==
    /\ isLoaded = "loading"
    /\ isLoaded' = "error"
    /\ UNCHANGED << controlMode, focusedBody, gestureRef, classifierVars,
                    srcObject, orphanStreams, pendingMedia, listeners,
                    loadPending, refLoop, otherLoops, cameraVars, tween,
                    now, lastFrameAt, simulationSpeed, lastTick,
                    resetSince >>

\* init() of src/components/HandController.tsx, the file App imports: the
\* webcam effect there depends on appState.controlMode only, so the render
\* setIsLoaded(true) causes does not run it
InitLoadedComponent ==
    /\ isLoaded = "loading"
    /\ isLoaded' = "ready"
    /\ UNCHANGED << controlMode, focusedBody, gestureRef, classifierVars,
                    srcObject, orphanStreams, pendingMedia, listeners,
                    loadPending, refLoop, otherLoops, cameraVars, tween,
                    now, lastFrameAt, simulationSpeed, lastTick,
                    resetSince >>

\* startWebcam after the await: getUserMedia resolved for the closure cap
MediaResolvedWithin(cap, maxListeners) ==
    /\ pendingMedia[cap] > 0
    /\ Len(listeners) < maxListeners
    /\ pendingMedia' = BagRemove(pendingMedia, cap)
    /\ orphanStreams' = IF srcObject THEN orphanStreams + 1 ELSE orphanStreams
    /\ srcObject' = TRUE
    /\ listeners' = Append(listeners, cap)
    /\ loadPending' = TRUE
    /\ UNCHANGED << controlMode, focusedBody, gestureRef, isLoaded,
                    classifierVars, refLoop, otherLoops, cameraVars, tween,
                    now, lastFrameAt, simulationSpeed, lastTick,
                    resetSince >>

MediaResolved(cap) == MediaResolvedWithin(cap, MaxListeners)

\* startWebcam: getUserMedia rejected ('Camera access denied.')
MediaRejected(cap) ==
    /\ pendingMedia[cap] > 0
    /\ pendingMedia' = BagRemove(pendingMedia, cap)
    /\ UNCHANGED << controlMode, focusedBody, gestureRef, isLoaded,
                    classifierVars, srcObject, orphanStreams, listeners,
                    loadPending, refLoop, otherLoops, cameraVars, tween,
                    now, lastFrameAt, simulationSpeed, lastTick,
                    resetSince >>

\* the video fires 'loadeddata': every listener runs predictWebcam on the
\* same video frame and schedules its own callback; requestRef keeps the
\* id of the last one
LoadedDataWithin(results, maxLoops) ==
    /\ loadPending /\ srcObject
    /\ ~throws(results)
    /\ LoopCount + Len(listeners) <= maxLoops
    /\ loadPending' = FALSE
    /\ Commit(runListeners(World, listeners, results, now))
    /\ refLoop' = << listeners[Len(listeners)] >>
    /\ otherLoops' = BagAddAll(BagAddAll(otherLoops, refLoop),
                               SubSeq(listeners, 1, Len(listeners) - 1))
    /\ UNCHANGED << controlMode, isLoaded, srcObject, orphanStreams,
                    pendingMedia, listeners, cameraVars, now, lastFrameAt,
                    simulationSpeed >>

LoadedData(results) == LoadedDataWithin(results, MaxLoops)

\* an animation frame runs the pending callback of the closure cap (the one
\* requestRef names when isRef); it classifies and schedules itself again.
\* On a video without a stream detectForVideo is taken to report no hands.
RunLoop(cap, isRef, results) ==
    /\ IF isRef THEN refLoop = << cap >> ELSE otherLoops[cap] > 0
    /\ srcObject \/ results = << >>
    /\ ~throws(results)
    /\ Commit(predictWebcam(World, cap, results, now))
    /\ refLoop' = << cap >>
    /\ otherLoops' = IF isRef THEN otherLoops
                     ELSE BagAddAll(BagRemove(otherLoops, cap), refLoop)
    /\ UNCHANGED << controlMode, isLoaded, srcObject, orphanStreams,
                    pendingMedia, listeners, loadPending, cameraVars, now,
                    lastFrameAt, simulationSpeed >>

\* what a tick that ends in a TypeError leaves behind: processGestures has
\* cleared lastPinchDist unless it was given two hands, and nothing else
\* was written; onGesture was not called
thrownTick(results) ==
    /\ lastPinchDist' = IF Len(results) = 2 THEN lastPinchDist ELSE << >>
    /\ lastTick' = [lastTick EXCEPT !.ran = TRUE, !.n = Len(results),
                                    !.calls = << >>, !.holdSince = << >>,
                                    !.holdExits = 0,
                                    !.wrist = IF Len(results) = 1
                                                 /\ 0 \in DOMAIN results[1]
                                              THEN results[1][0]
                                              ELSE << >>]
    /\ UNCHANGED << controlMode, focusedBody, gestureRef, isLoaded,
                    lastHandPos, gestureHoldStart, srcObject, orphanStreams,
                    pendingMedia, listeners, cameraVars, tween, now,
                    lastFrameAt, simulationSpeed, resetSince >>

\* the loadeddata event with results on which processGestures throws: every
\* listener ends in the TypeError before it reaches requestAnimationFrame
LoadedDataThrows(results) ==
    /\ loadPending /\ srcObject
    /\ throws(results)
    /\ loadPending' = FALSE
    /\ thrownTick(results)
    /\ UNCHANGED << refLoop, otherLoops >>

\* an animation frame runs the pending callback of the closure cap with
\* results on which processGestures throws: the callback has been consumed
\* and predictWebcam does not reach requestAnimationFrame
RunLoopThrows(cap, isRef, results) ==
    /\ IF isRef THEN refLoop = << cap >> ELSE otherLoops[cap] > 0
    /\ srcObject
    /\ throws(results)
    /\ thrownTick(results)
    /\ refLoop' = IF isRef THEN << >> ELSE refLoop
    /\ otherLoops' = IF isRef THEN otherLoops ELSE BagRemove(otherLoops, cap)
    /\ UNCHANGED loadPending

\* one classifier tick on the given results, however it ends
Tick(results) ==
    \/ LoadedData(results)
    \/ LoadedDataThrows(results)
    \/ \E cap \in FocusValues, isRef \in BOOLEAN :
          \/ RunLoop(cap, isRef, results)
          \/ RunLoopThrows(cap, isRef, results)

(***************************************************************************)
(* App: the setters, with the render and the effects they cause            *)
(***************************************************************************)
\* setControlMode(m) from the settings panel.  The render runs the webcam
\* effect, the focus effect (controlMode is one of its dependencies) and
\* applies the changed 'enabled' prop of OrbitControls.
SetControlMode(m) ==
    /\ m # controlMode
    /\ controlMode' = m
    /\ webcamEffect(m, isLoaded)
    /\ tween' = focusEffect(tween, focusedBody, m, now)
    /\ controls' = IF (m = MOUSE) # (controlMode = MOUSE)
                   THEN [controls EXCEPT !.enabled = (m = MOUSE)]
                   ELSE controls
    /\ resetSince' = << >>
    /\ UNCHANGED << focusedBody, gestureRef, isLoaded, classifierVars,
                    orphanStreams, listeners, otherLoops, handState,
                    cameraPos, autoOrbit, meshPos, now, lastFrameAt,
                    simulationSpeed, lastTick >>

\* the members of enum ControlMode
ControlModeEnum == {MOUSE, KEYBOARD, AUTO}

\* the Control Mode buttons of the settings panel: one per
\* Object.values(ControlMode)
ModeButtons == ControlModeEnum

\* a click on the button of mode m, if the panel has one
ClickModeButton(m) ==
    /\ m \in ModeButtons
    /\ SetControlMode(m)

\* setFocusedBody(v): planet click, quick select, [CLOSE FOCUS]
SetFocusedBody(v) ==
    /\ v # focusedBody
    /\ focusedBody' = v
    /\ tween' = focusEffect(tween, v, controlMode, now)
    /\ resetSince' = IF v = NoFocus THEN << now >> ELSE << >>
    /\ UNCHANGED << controlMode, gestureRef, isLoaded, classifierVars,
                    srcObject, orphanStreams, pendingMedia, listeners,
                    loadPending, refLoop, otherLoops, cameraVars, now,
                    lastFrameAt, simulationSpeed, lastTick >>

\* values of the time-scale slider used by the model
SpeedValues == {0, 1000, 2000}

\* setSimulationSpeed(v)
SetSimulationSpeed(v) ==
    /\ v # simulationSpeed
    /\ simulationSpeed' = v
    /\ UNCHANGED << controlMode, focusedBody, gestureRef, isLoaded,
                    classifierVars, srcObject, orphanStreams, pendingMedia,
                    listeners, loadPending, refLoop, otherLoops, cameraVars,
                    tween, now, lastFrameAt, lastTick,
                    resetSince >>

(***************************************************************************)
(* CameraController: the keydown handler.  The camera is taken to look at  *)
(* controls.target, as it does after controls.update(): its local z axis   *)
(* points from the target to the camera, its local x axis is up x z.       *)
(***************************************************************************)
\* moveSpeed, tenths
MoveSpeed == 80

Keys == {"ArrowUp", "ArrowDown", "ArrowLeft", "ArrowRight", "w", "s", " "}

\* camera.translateZ(d)
translateZ(pos, target, d) ==
    LET z == [i \in 1..3 |-> pos[i] - target[i]]
        len == length(z)
    IN  IF len = 0 THEN Vec(pos[1], pos[2], pos[3] + d)
        ELSE [i \in 1..3 |-> pos[i] + MulDiv(z[i], d, len)]

\* camera.translateX(d)
translateX(pos, target, d) ==
    LET x == Vec(pos[3] - target[3], 0, -(pos[1] - target[1]))
        len == length(x)
    IN  IF len = 0 THEN Vec(pos[1] + d, pos[2], pos[3])
        ELSE [i \in 1..3 |-> pos[i] + MulDiv(x[i], d, len)]

\* the switch of handleKeyDown on the camera position
keyMove(pos, target, key) ==
    IF key = "ArrowUp" THEN translateZ(pos, target, -MoveSpeed)
    ELSE IF key = "ArrowDown" THEN translateZ(pos, target, MoveSpeed)
    ELSE IF key = "ArrowLeft" THEN translateX(pos, target, -MoveSpeed)
    ELSE IF key = "ArrowRight" THEN translateX(pos, target, MoveSpeed)
    ELSE IF key = "w" THEN Vec(pos[1], pos[2] + MoveSpeed, pos[3])
    ELSE IF key = "s" THEN Vec(pos[1], pos[2] - MoveSpeed, pos[3])
    ELSE pos

RECURSIVE keyRepeat(_, _, _, _)
\* n keydown events of a key that is held down
keyRepeat(pos, target, key, n) ==
    IF n = 0 THEN pos
    ELSE keyRepeat(keyMove(pos, target, key), target, key, n - 1)

\* what handleKeyDown does past its mode test, for n keydown events of the
\* same key.  ' ' calls setFocusedBody(null).
keyEffects(key, n) ==
    /\ cameraPos' = keyRepeat(cameraPos, controls.target, key, n)
    /\ focusedBody' = IF key = " " THEN NoFocus ELSE focusedBody
    /\ tween' = IF key = " " /\ focusedBody # NoFocus
                THEN focusEffect(tween, NoFocus, controlMode, now)
                ELSE tween
    /\ resetSince' = IF key = " " /\ focusedBody # NoFocus THEN << now >>
                     ELSE IF key = " " THEN resetSince
                     ELSE << >>
    /\ UNCHANGED << controlMode, gestureRef, isLoaded, classifierVars,
                    srcObject, orphanStreams, pendingMedia, listeners,
                    loadPending, refLoop, otherLoops, handState, controls,
                    autoOrbit, meshPos, now, lastFrameAt, simulationSpeed,
                    lastTick >>

\* handleKeyDown without the test of the control mode
KeyDownAnyMode(key, n) == keyEffects(key, n)

\* handleKeyDown for n keydown events of the same key; outside KEYBOARD mode
\* the handler returns at once.
KeyDown(key, n) ==
    IF controlMode # KEYBOARD THEN UNCHANGED vars ELSE keyEffects(key, n)

(***************************************************************************)
(* One animation frame of the scene: the gsap ticker and the frame loop    *)
(* (OrbitControls' own callback, then CameraController's), in either order *)
(***************************************************************************)
FrameInput ==
    [controlMode |-> controlMode, focusedBody |-> focusedBody,
     gesture |-> gestureRef, handState |-> handState, pos |-> cameraPos,
     controls |-> controls, autoOrbit |-> autoOrbit,
     delta |-> now - lastFrameAt, elapsed |-> now - StartClock,
     simulationSpeed |-> simulationSpeed]

sceneFrame(f) == useFrame(dreiFrame(f))

Frame(gsapFirst) ==
    /\ now > lastFrameAt
    /\ lastFrameAt' = now
    /\ meshPos' = planetFrames(meshPos, now - StartClock, simulationSpeed)
    /\ IF gsapFirst
       THEN LET g == gsapTick(tween, << >>, cameraPos, controls.target, now)
                f == sceneFrame([FrameInput EXCEPT !.pos = g.pos,
                                         !.controls.target = g.target])
            IN  /\ tween' = g.tween
                /\ handState' = f.handState
                /\ cameraPos' = f.pos
                /\ controls' = f.controls
                /\ autoOrbit' = f.autoOrbit
       ELSE LET f == sceneFrame(FrameInput)
                g == gsapTick(tween, << >>, f.pos, f.controls.target, now)
            IN  /\ tween' = g.tween
                /\ handState' = f.handState
                /\ cameraPos' = g.pos
                /\ controls' = [f.controls EXCEPT !.target = g.target]
                /\ autoOrbit' = f.autoOrbit
    /\ lastTick' = IF controlMode = HAND
                      /\ gestureRef.type \in {"ROTATE", "ZOOM"}
                   THEN [lastTick EXCEPT !.applied = TRUE]
                   ELSE lastTick
    /\ UNCHANGED << controlMode, focusedBody, gestureRef, isLoaded,
                    classifierVars, srcObject, orphanStreams, pendingMedia,
                    listeners, loadPending, refLoop, otherLoops, now,
                    simulationSpeed, resetSince >>

\* time passes, up to max ms after mount
Elapse(d, max) ==
    /\ now + d <= StartClock + max
    /\ now' = now + d
    /\ UNCHANGED << controlMode, focusedBody, gestureRef, isLoaded,
                    classifierVars, srcObject, orphanStreams, pendingMedia,
                    listeners, loadPending, refLoop, otherLoops, cameraVars,
                    tween, lastFrameAt, simulationSpeed, lastTick,
                    resetSince >>

(***************************************************************************)
(* Specifications                                                          *)
(***************************************************************************)
Ticks(Inputs) ==
    \/ \E results \in Inputs : LoadedData(results)
    \/ \E cap \in FocusValues, isRef \in BOOLEAN, results \in Inputs :
          RunLoop(cap, isRef, results)

Next ==
    \/ InitLoaded
    \/ InitFailed
    \/ \E cap \in FocusValues : MediaResolved(cap)
    \/ \E cap \in FocusValues : MediaRejected(cap)
    \/ Ticks(CoarseInputs)
    \/ \E m \in ControlMode : SetControlMode(m)
    \/ \E v \in FocusValues : SetFocusedBody(v)
    \/ \E gsapFirst \in BOOLEAN : Frame(gsapFirst)
    \/ \E d \in CoarseDelays : Elapse(d, MaxElapsed)

Spec == Init /\ [][Next]_vars

\* The classifier at work: Hand mode was selected with the model loaded and
\* the stream has just been acquired; from there only video samples arrive
\* and time passes.
InitClassifier ==
    /\ controlMode = HAND
    /\ focusedBody = NoFocus
    /\ gestureRef = GestureNone
    /\ isLoaded = "ready"
    /\ lastHandPos = << >>
    /\ lastPinchDist = << >>
    /\ gestureHoldStart = 0
    /\ srcObject = TRUE
    /\ orphanStreams = 0
    /\ pendingMedia = EmptyBag
    /\ listeners = << NoFocus >>
    /\ loadPending = TRUE
    /\ refLoop = << >>
    /\ otherLoops = EmptyBag
    /\ handState = InitHandState
    /\ cameraPos = DefaultPos
    /\ controls = [target |-> Origin, enabled |-> FALSE]
    /\ autoOrbit = 0
    /\ meshPos = InitMeshPos
    /\ tween = focusEffect(<< >>, NoFocus, MOUSE, StartClock)
    /\ now = StartClock
    /\ lastFrameAt = StartClock
    /\ simulationSpeed = 1000
    /\ lastTick = NoTick
    /\ resetSince = << >>

NextClassifier ==
    \/ \E results \in FineInputs : LoadedData(results)
    \/ \E results \in FineInputs : RunLoop(NoFocus, TRUE, results)
    \/ \E d \in Delays : Elapse(d, MaxHoldElapsed)

SpecClassifier == InitClassifier /\ [][NextClassifier]_vars

\* The hand zoom radius at some later time of a session: values that sums
\* of ZOOM gestures reach from 300, half a unit inside each limit
ZoomStarts == {50500, 300000, 599500}

\* A hand zoom session begins with Hand mode just selected (getUserMedia is
\* pending), the transition started at mount finished and the camera at rest.
InitZoom ==
    /\ controlMode = HAND
    /\ focusedBody = NoFocus
    /\ gestureRef = GestureNone
    /\ isLoaded = "ready"
    /\ lastHandPos = << >>
    /\ lastPinchDist = << >>
    /\ gestureHoldStart = 0
    /\ srcObject = FALSE
    /\ orphanStreams = 0
    /\ pendingMedia = BagAdd(EmptyBag, NoFocus)
    /\ listeners = << >>
    /\ loadPending = FALSE
    /\ refLoop = << >>
    /\ otherLoops = EmptyBag
    /\ \E z \in ZoomStarts : handState = [InitHandState EXCEPT !.zoom = z]
    /\ cameraPos = DefaultPos
    /\ controls = [target |-> Origin, enabled |-> FALSE]
    /\ autoOrbit = 0
    /\ meshPos = InitMeshPos
    /\ tween = << >>
    /\ now = StartClock
    /\ lastFrameAt = StartClock
    /\ simulationSpeed = 1000
    /\ lastTick = NoTick
    /\ resetSince = << >>

\* time between two animation frames of a hand zoom session
ZoomDelays == {300}

\* detection results of a hand zoom session: no hand, two hands 0.10 or 0.13
\* apart, one hand showing the peace sign
ZoomInputs ==
    { << >> }
    \cup { << MkHand(<< 400, 500 >>, "fist"), MkHand(w, "fist") >> :
             w \in {<< 500, 500 >>, << 530, 500 >>} }
    \cup { << MkHand(<< 500, 500 >>, "victory") >> }

\* modes selected during a hand zoom session: Hand mode is left for the
\* pointer mode and entered again
ZoomModes == {MOUSE, HAND}

\* Video samples arrive, modes are switched, the stream is acquired again
\* after a return to Hand mode, and frames run as time passes.  The focus
\* target stays empty, so every closure is the one that captured no focus.
NextZoom ==
    \/ MediaResolved(NoFocus)
    \/ Ticks(ZoomInputs)
    \/ \E m \in ZoomModes : SetControlMode(m)
    \/ \E gsapFirst \in BOOLEAN : Frame(gsapFirst)
    \/ \E d \in ZoomDelays : Elapse(d, MaxZoomElapsed)

SpecZoom == InitZoom /\ [][NextZoom]_vars

\* The scene at work: a session from mount in which the focus target and
\* the mode are switched, Hand mode gets its stream and a hand in the peace
\* sign is seen, while frames run for longer than a reset transition lasts.
SceneDelays == {2000}

\* detection results of a scene session: a peace sign at two places
SceneInputs ==
    { << MkHand(w, "victory") >> : w \in {<< 500, 500 >>, << 520, 500 >>} }

NextScene ==
    \/ InitLoaded
    \/ MediaResolved(NoFocus)
    \/ \E cap \in FocusValues : MediaRejected(cap)
    \/ Ticks(SceneInputs)
    \/ \E m \in ControlMode : SetControlMode(m)
    \/ \E v \in FocusValues : SetFocusedBody(v)
    \/ \E gsapFirst \in BOOLEAN : Frame(gsapFirst)
    \/ \E d \in SceneDelays : Elapse(d, MaxSceneElapsed)

SpecScene == Init /\ [][NextScene]_vars

\* The keyboard at work: a session from mount, while the landmark model is
\* still loading, in which modes and focus targets are switched and keys
\* are held down (KeyRepeats keydown events in a row).
KeyInputs == {"w", " "}

KeyRepeats == {10}

NextKeyboard ==
    \/ \E m \in ControlMode : SetControlMode(m)
    \/ \E v \in FocusValues : SetFocusedBody(v)
    \/ \E key \in KeyInputs, n \in KeyRepeats :
          /\ length(keyRepeat(cameraPos, controls.target, key, n))
                <= MaxCameraDistance
          /\ KeyDown(key, n)
    \/ \E gsapFirst \in BOOLEAN : Frame(gsapFirst)
    \/ \E d \in CoarseDelays : Elapse(d, MaxElapsed)

SpecKeyboard == Init /\ [][NextKeyboard]_vars

\* The bodies in orbit: frames at several instants while the speed slider
\* and the focus target are changed.
OrbitDelays == {700}

NextOrbit ==
    \/ \E v \in SpeedValues : SetSimulationSpeed(v)
    \/ \E v \in FocusValues : SetFocusedBody(v)
    \/ \E gsapFirst \in BOOLEAN : Frame(gsapFirst)
    \/ \E d \in OrbitDelays : Elapse(d, MaxOrbitElapsed)

SpecOrbit == Init /\ [][NextOrbit]_vars

\* Acquisition failures: the landmark model loads or fails to load, the
\* camera is granted or denied, and modes are switched while frames run.
FailureInputs ==
    { << MkHand(w, "victory") >> : w \in {<< 500, 500 >>, << 520, 500 >>} }

FailureModes == {MOUSE, AUTO, HAND}

NextFailure ==
    \/ InitLoaded
    \/ InitFailed
    \/ MediaResolved(NoFocus)
    \/ MediaRejected(NoFocus)
    \/ Ticks(FailureInputs)
    \/ \E m \in FailureModes : SetControlMode(m)
    \/ \E gsapFirst \in BOOLEAN : Frame(gsapFirst)
    \/ \E d \in CoarseDelays : Elapse(d, MaxElapsed)

SpecFailure == Init /\ [][NextFailure]_vars

\* The classifier on inputs the detector is not meant to produce, mixed
\* with well-formed ones.
NextMalformed ==
    \/ \E results \in FineInputs \cup MalformedInputs : LoadedData(results)
    \/ \E results \in FineInputs \cup MalformedInputs :
          RunLoop(NoFocus, TRUE, results)
    \/ \E results \in MalformedInputs : LoadedDataThrows(results)
    \/ \E results \in MalformedInputs : RunLoopThrows(NoFocus, TRUE, results)
    \/ \E d \in Delays : Elapse(d, MaxHoldElapsed)

SpecMalformed == InitClassifier /\ [][NextMalformed]_vars

\* The settings panel in use: the user keeps clicking mode buttons (every
\* button that can be clicked again and again is clicked in the end), moves
\* the speed slider and selects bodies while frames run.
NextUI ==
    \/ \E m \in ControlMode : ClickModeButton(m)
    \/ \E v \in FocusValues : SetFocusedBody(v)
    \/ \E v \in SpeedValues : SetSimulationSpeed(v)
    \/ InitLoaded
    \/ \E gsapFirst \in BOOLEAN : Frame(gsapFirst)
    \/ \E d \in CoarseDelays : Elapse(d, MaxElapsed)

SpecUI ==
    /\ Init
    /\ [][NextUI]_vars
    /\ \A m \in ControlMode : SF_vars(ClickModeButton(m))

\* Autopilot: the mode is switched between MOUSE and AUTO while bodies are
\* focused, the speed slider is moved and frames run.
AutoModes == {MOUSE, AUTO}

AutoDelays == {1000}

NextAuto ==
    \/ \E m \in AutoModes : SetControlMode(m)
    \/ \E v \in FocusValues : SetFocusedBody(v)
    \/ \E v \in SpeedValues : SetSimulationSpeed(v)
    \/ \E gsapFirst \in BOOLEAN : Frame(gsapFirst)
    \/ \E d \in AutoDelays : Elapse(d, MaxOrbitElapsed)

SpecAuto == Init /\ [][NextAuto]_vars

\* A focus target that names no body: setFocusedBody is given an id that
\* PLANET_DATA does not have, next to the usual values.
BadId == "pluto"

InvalidModes == {MOUSE, KEYBOARD, AUTO}

NextInvalid ==
    \/ \E m \in InvalidModes : SetControlMode(m)
    \/ \E v \in FocusValues \cup {BadId} : SetFocusedBody(v)
    \/ \E gsapFirst \in BOOLEAN : Frame(gsapFirst)
    \/ \E d \in CoarseDelays : Elapse(d, MaxElapsed)

SpecInvalid == Init /\ [][NextInvalid]_vars

\* Focus tracking: every body of the catalog is focused in MOUSE mode while
\* the speed slider is moved; the second frame runs after the transition
\* started at mount has ended.
TrackDelays == {2100}

NextTrack ==
    \/ \E v \in SpeedValues : SetSimulationSpeed(v)
    \/ \E v \in {NoFocus} \cup BodyIds : SetFocusedBody(v)
    \/ \E gsapFirst \in BOOLEAN : Frame(gsapFirst)
    \/ \E d \in TrackDelays : Elapse(d, MaxTrackElapsed)

SpecTrack == Init /\ [][NextTrack]_vars

\* Entering and leaving Hand mode repeatedly: the model is loaded, Hand mode
\* is switched on and off, every acquisition is granted while Hand mode is
\* still on, and the detector sees the hands of CoarseInputs.
LeakModes == {MOUSE, HAND}

\* getUserMedia resolves before the user leaves Hand mode
GrantedInHandMode ==
    /\ controlMode = HAND
    /\ MediaResolvedWithin(NoFocus, MaxLeakListeners)

NextLeak ==
    \/ InitLoaded
    \/ GrantedInHandMode
    \/ \E results \in CoarseInputs : LoadedDataWithin(results, MaxLeakLoops)
    \/ \E isRef \in BOOLEAN, results \in CoarseInputs :
          RunLoop(NoFocus, isRef, results)
    \/ \E m \in LeakModes : SetControlMode(m)

SpecLeak == Init /\ [][NextLeak]_vars

\* The lifecycle of the HandController that App imports
\* (src/components/HandController.tsx): the model loads or fails, modes
\* and focus targets are selected, acquisitions are granted or refused.
NextComponent ==
    \/ InitLoadedComponent
    \/ InitFailed
    \/ \E cap \in FocusValues : MediaResolved(cap)
    \/ \E cap \in FocusValues : MediaRejected(cap)
    \/ \E m \in ControlMode : SetControlMode(m)
    \/ \E v \in FocusValues : SetFocusedBody(v)
    \/ \E d \in CoarseDelays : Elapse(d, MaxElapsed)

SpecComponent == Init /\ [][NextComponent]_vars

(***************************************************************************)
(* Properties                                                              *)
(***************************************************************************)
\* a classifier tick on the given detection result
TickWith(results) ==
    \/ LoadedData(results)
    \/ \E cap \in FocusValues, isRef \in BOOLEAN : RunLoop(cap, isRef, results)

\* C1: every classifier tick makes exactly one onGesture call, and that call
\* is the live gesture afterwards.
EveryTickEmitsOne ==
    lastTick.ran =>
        /\ Len(lastTick.calls) = 1
        /\ gestureRef = lastTick.calls[1]

\* C2: a tick with zero hands emits NONE and leaves both retained positions
\* empty; a zero-hand tick that follows a zero-hand tick changes nothing of
\* the classifier state, the live gesture or the focus target.
ZeroHandsRest ==
    [][TickWith(<< >>) =>
          /\ lastTick'.calls = << GestureNone >>
          /\ gestureRef' = GestureNone
          /\ lastHandPos' = << >>
          /\ lastPinchDist' = << >>
          /\ (lastTick.ran /\ lastTick.n = 0 =>
                UNCHANGED << lastHandPos, lastPinchDist, gestureHoldStart,
                             gestureRef, focusedBody, lastTick >>)]_vars

\* C2 witness: a zero-hand tick has run after single-hand ticks had set the
\* retained state
ZeroHandsRestWitness ==
    /\ lastTick.ran /\ lastTick.n = 0
    /\ gestureHoldStart > StartClock
    /\ lastHandPos = << >> /\ lastPinchDist = << >>
    /\ gestureRef = GestureNone

\* C3: on a two-hand tick that follows a two-hand tick, with D the change of
\* the wrist distance: |D| > 0.005 emits ZOOM with value D x 20 (same sign
\* as D), |D| <= 0.005 emits nothing; the new distance is stored.
TwoHandZoomRule ==
    [][\A results \in FineInputs :
          (Len(results) = 2 /\ lastTick.ran /\ lastTick.n = 2
           /\ TickWith(results)) =>
             LET D == dist(results) - lastPinchDist[1]
             IN  /\ IF D > 5 \/ D < -5
                    THEN /\ lastTick'.calls = << Gesture("ZOOM", D * 20, 0) >>
                         /\ gestureRef' = Gesture("ZOOM", D * 20, 0)
                         /\ (gestureRef'.x > 0) = (D > 0)
                    ELSE /\ lastTick'.calls = << >>
                         /\ gestureRef' = gestureRef
                 /\ lastPinchDist' = << dist(results) >>]_vars

\* C3 witness: the distance went from 0.10 to 0.13 and ZOOM 0.6 was emitted
TwoHandZoomWitness ==
    /\ lastTick.n = 2
    /\ lastTick.calls = << Gesture("ZOOM", 600, 0) >>
    /\ lastPinchDist = << 130 >>

\* C4: on a single-hand peace-sign tick with a stored position, with (dx, dy)
\* the move of the wrist since that position: ROTATE carrying dx and dy as
\* they are is emitted when |dx| > 0.002 or |dy| > 0.002, nothing is emitted
\* otherwise (a move of exactly 0.002 on both axes included); the wrist
\* position is stored in both cases.
RotateRule ==
    [][\A results \in FineInputs :
          (Len(results) = 1 /\ isVictory(results[1]) /\ lastHandPos # << >>
           /\ TickWith(results)) =>
             LET wrist == results[1][0]
                 dx == wrist[1] - lastHandPos[1]
                 dy == wrist[2] - lastHandPos[2]
             IN  /\ IF dx > 2 \/ dx < -2 \/ dy > 2 \/ dy < -2
                    THEN /\ lastTick'.calls = << Gesture("ROTATE", dx, dy) >>
                         /\ gestureRef' = Gesture("ROTATE", dx, dy)
                    ELSE /\ lastTick'.calls = << >>
                         /\ gestureRef' = gestureRef
                 /\ lastHandPos' = wrist]_vars

\* C4 witness: the wrist went from (0.50, 0.50) to (0.52, 0.50) in the peace
\* sign and ROTATE(0.02, 0) was emitted
RotateWitness ==
    /\ lastTick.n = 1
    /\ lastTick.calls = << Gesture("ROTATE", 20, 0) >>
    /\ lastHandPos = << 520, 500 >>

\* C5 as stated: an unbroken run of open-palm ticks emits EXIT_FOCUS at most
\* once, however long it lasts.
OneExitPerHold == lastTick.holdExits <= 1

\* C5: on an open-palm tick EXIT_FOCUS is emitted exactly when more than
\* 1000 ms have passed since the hold timer was last set, and the emission
\* sets the timer to the time of the tick; two successive EXIT_FOCUS are
\* therefore more than 1000 ms apart, and a palm that stays open emits a
\* further one for every further period of more than 1000 ms.
ExitsDebounced ==
    [][\A results \in FineInputs :
          (palmTick(results) /\ TickWith(results)) =>
             /\ IF now - gestureHoldStart > 1000
                THEN /\ lastTick'.calls = << GestureExit >>
                     /\ gestureRef' = GestureExit
                     /\ gestureHoldStart' = now
                ELSE /\ lastTick'.calls = << >>
                     /\ gestureHoldStart' = gestureHoldStart
             /\ (lastTick'.exitGap # << >> => lastTick'.exitGap[1] > 1000)]_vars

\* C5 witness: a palm held open for 2002 ms after a closed hand has emitted
\* EXIT_FOCUS twice, 1001 ms apart
ExitsDebouncedWitness ==
    /\ lastTick.holdExits = 2
    /\ lastTick.exitGap = << 1001 >>
    /\ lastTick.lastExitAt[1] - lastTick.holdSince[1] = 2002

\* C6: a tick emits EXIT_FOCUS only when the unbroken run of open-palm ticks
\* it ends began at least 1000 ms earlier.
ExitOnlyAfterHold ==
    lastTick.calls = << GestureExit >> =>
        /\ lastTick.holdSince # << >>
        /\ lastTick.lastExitAt[1] - lastTick.holdSince[1] >= 1000

\* C7: the zoom radius of the hand state stays within [50, 600].
ZoomInBand ==
    /\ handState.zoom >= 50000
    /\ handState.zoom <= 600000

\* C7 witness: ZOOM 0.6 applied at radius 50.5 was cut off at 50
ZoomInBandWitness ==
    /\ handState.zoom = 50000
    /\ gestureRef = Gesture("ZOOM", 600, 0)
    /\ lastFrameAt > StartClock

\* C8: the step that takes the control mode away from HAND while a ROTATE
\* or ZOOM gesture is live leaves NONE as the live gesture.
SwitchAwayClearsGesture ==
    [][(controlMode = HAND /\ controlMode' # HAND
        /\ gestureRef.type \in {"ROTATE", "ZOOM"}) =>
          gestureRef' = GestureNone]_vars

\* C9: while the control mode is not HAND a classifier tick changes nothing
\* of the camera pose or of what moves it: the hand state (rotation, zoom),
\* the camera position, the controls, the auto orbit angle and the
\* transitions in progress.
TicksInertOutsideHand ==
    [][(controlMode # HAND /\ Ticks(CoarseInputs)) =>
          UNCHANGED << handState, cameraPos, controls, autoOrbit, tween >>]_vars

\* C10: while the control mode is not HAND no stream is attached to the
\* video and no video-sample callback is waiting for a frame.
TeardownStopsAll ==
    controlMode # HAND =>
        /\ ~srcObject
        /\ LoopCount = 0

\* C11: when the focus target was cleared outside AUTO mode and no input
\* has arrived since, then from the first frame 2 s after the clearing on
\* the camera is at (0, 150, 300), the controls' target is at (0, 0, 0)
\* and no transition is in progress.
ResetReachesDefault ==
    (resetSince # << >> /\ controlMode # AUTO
     /\ lastFrameAt >= resetSince[1] + 2000) =>
        /\ cameraPos = DefaultPos
        /\ controls.target = Origin
        /\ tween = << >>

\* C12: a reset transition is started only by a step that changes the focus
\* target from a body to none while the mode is not AUTO.
TransitionOnlyOnClearing ==
    [][Len(tween') > Len(tween) =>
          /\ focusedBody # NoFocus
          /\ focusedBody' = NoFocus
          /\ controlMode' # AUTO]_vars

\* C13: in MOUSE mode the camera is between 10 and 650 from the origin, in
\* HAND mode between 50 and 600.
DistanceInBand ==
    /\ controlMode = MOUSE =>
          (length(cameraPos) >= 100 /\ length(cameraPos) <= 6500)
    /\ controlMode = HAND =>
          (length(cameraPos) >= 500 /\ length(cameraPos) <= 6000)

\* C14: after every frame each body is at the position given by its data,
\* the time since mount and the speed multiplier alone, whatever the frames
\* before it did: the earth (distance 75, speed 1) is at
\* 75 * (cos a, sin a) for a = elapsed * multiplier * 0.2, the focus
\* tracking computes the same position, and the sun (distance 0) stays at
\* (0, 0) and is tracked at the origin.
OrbitIsAFunction ==
    [][lastFrameAt' # lastFrameAt =>
          LET e == now - StartClock
              a == (e * simulationSpeed) \div 5000
              at == << MulDiv(cos(a), 750, 1000), MulDiv(sin(a), 750, 1000) >>
          IN  /\ meshPos'["earth"] = at
              /\ orbitPosition(PLANET_DATA["earth"], e, simulationSpeed)
                   = Vec(at[1], 0, at[2])
              /\ meshPos'["sun"] = << 0, 0 >>
              /\ orbitPosition(PLANET_DATA["sun"], e, simulationSpeed) = Origin
              /\ \A id \in BodyIds :
                    meshPos'[id] =
                      planetFrame(<< 0, 0 >>, PLANET_DATA[id], e,
                                  simulationSpeed)]_vars

\* a second frame has run at double speed and the earth has left its
\* starting point
OrbitIsAFunctionWitness ==
    /\ lastFrameAt >= StartClock + 1400
    /\ simulationSpeed = 2000
    /\ meshPos["earth"] # << 750, 0 >>
    /\ meshPos["earth"][2] # 0
    /\ meshPos["sun"] = << 0, 0 >>

\* C15: once the landmark model has failed to load there is no camera
\* request, no stream, no listener, no video-sample loop and no gesture
\* other than NONE, and every other control mode can still be selected; a
\* denied camera request removes that request and changes nothing else, and
\* afterwards every other control mode can still be selected.
FailureIsContained ==
    [][/\ isLoaded' = "error" =>
            /\ BagSize(pendingMedia') = 0
            /\ ~srcObject'
            /\ listeners' = << >>
            /\ ~loadPending'
            /\ LoopCount' = 0
            /\ gestureRef' = GestureNone
            /\ ~lastTick'.ran
       /\ isLoaded = "error" =>
            \A m \in ControlMode \ {controlMode} : ENABLED SetControlMode(m)
       /\ BagSize(pendingMedia') < BagSize(pendingMedia) /\ srcObject' = srcObject
            /\ orphanStreams' = orphanStreams =>
            /\ UNCHANGED << controlMode, focusedBody, gestureRef, isLoaded,
                            listeners, loadPending, refLoop, otherLoops,
                            cameraVars, tween >>
            /\ \A m \in {MOUSE, KEYBOARD, AUTO} \ {controlMode} :
                  ENABLED SetControlMode(m)]_vars

\* the model failed to load, Hand mode was selected and left again, and an
\* Autopilot frame has moved the camera
FailureIsContainedWitness ==
    /\ isLoaded = "error"
    /\ controlMode = AUTO
    /\ lastFrameAt > StartClock
    /\ autoOrbit > 0
    /\ cameraPos # DefaultPos

\* C16: a classifier tick on a malformed input (a hand with fewer than 21
\* points, or more than two hands) ends with the gesture NONE and with the
\* video-sample loop scheduled again.
MalformedTickDegrades ==
    [][(\E results \in MalformedInputs : Tick(results)) =>
          /\ gestureRef' = GestureNone
          /\ lastTick'.calls = << GestureNone >>
          /\ LoopCount' >= 1]_vars

\* C17: Hand mode can be made the active mode through the mode buttons of
\* the settings panel: a user who keeps clicking them gets there.
HandSelectable == <>(controlMode = HAND)

\* C18: the drag-to-orbit control (OrbitControls) is enabled only if the
\* mode is MOUSE and no focus target is set.
DragOnlyInFreePointer ==
    controls.enabled => (controlMode = MOUSE /\ focusedBody = NoFocus)

\* C19: with a focus target set, in MOUSE, KEYBOARD and HAND mode alike,
\* and no reset transition in progress, every frame moves the controls'
\* target a tenth of the way toward the live orbit position of the focused
\* body.
FocusReaimsEveryFrame ==
    [][(/\ lastFrameAt' # lastFrameAt
        /\ focusedBody # NoFocus
        /\ controlMode \in {MOUSE, KEYBOARD, HAND}
        /\ tween = << >>) =>
          controls'.target =
            lerp(controls.target,
                 orbitPosition(PLANET_DATA[focusedBody], now - StartClock,
                               simulationSpeed),
                 100)]_vars

\* C20: a tick in HAND mode that emits EXIT_FOCUS while a focus target is
\* set leaves no focus target.
ExitClearsFocus ==
    [][(/\ controlMode = HAND
        /\ lastTick' # lastTick
        /\ lastTick'.calls = << GestureExit >>
        /\ focusedBody # NoFocus) =>
          focusedBody' = NoFocus]_vars

\* C21: while the mode is HAND and the live gesture is NONE, no step moves
\* the camera or the controls' target; in particular the step into HAND
\* mode starts nothing that moves them afterwards.
HandNoneKeepsPose ==
    [][(/\ controlMode = HAND
        /\ controlMode' = HAND
        /\ gestureRef.type = "NONE"
        /\ gestureRef'.type = "NONE") =>
          /\ cameraPos' = cameraPos
          /\ controls'.target = controls.target]_vars

\* C22: a keydown event in MOUSE, AUTO or HAND mode, whatever the key, and
\* a key held down there, change nothing; outside a frame the camera position changes only in
\* KEYBOARD mode; and in KEYBOARD mode the reset key ' ' leaves no focus
\* target and does not move the camera.
KeysOnlyInKeyboardMode ==
    [][/\ (controlMode # KEYBOARD
           /\ (\/ \E key \in Keys : KeyDown(key, 1)
               \/ \E key \in KeyInputs, n \in KeyRepeats : KeyDown(key, n))) =>
            UNCHANGED << cameraPos, controls, focusedBody, tween >>
       /\ (cameraPos' # cameraPos /\ lastFrameAt' = lastFrameAt) =>
            controlMode = KEYBOARD
       /\ (controlMode = KEYBOARD
           /\ \E n \in KeyRepeats : KeyDown(" ", n)) =>
            (focusedBody' = NoFocus /\ cameraPos' = cameraPos)]_vars

\* in KEYBOARD mode keys have raised the camera and the reset key has
\* cleared a focus target
KeysOnlyInKeyboardModeWitness ==
    /\ controlMode = KEYBOARD
    /\ cameraPos = Vec(0, 2300, 3000)
    /\ focusedBody = NoFocus
    /\ resetSince # << >>

\* C23: in AUTO mode a change of the focus target changes neither the
\* camera, the controls, the autopilot angle nor the transitions (clearing
\* the focus starts none), and the frame callbacks give the same result
\* for every value of the focus target, whichever of them the frame is
\* given and whether the gsap ticker ran before them or not.
AutopilotIgnoresFocus ==
    [][controlMode = AUTO =>
          /\ focusedBody' # focusedBody =>
                UNCHANGED << controlMode, cameraVars, tween >>
          /\ lastFrameAt' # lastFrameAt =>
                LET g == gsapTick(tween, << >>, cameraPos, controls.target, now)
                    inputs == { FrameInput,
                                [FrameInput EXCEPT !.pos = g.pos,
                                                   !.controls.target = g.target] }
                IN  \A fi \in inputs, v \in FocusValues :
                       sceneFrame([fi EXCEPT !.focusedBody = v])
                         = [sceneFrame(fi) EXCEPT !.focusedBody = v]]_vars

\* a body was focused during autopilot and an autopilot frame has run with
\* it
AutopilotIgnoresFocusWitness ==
    /\ controlMode = AUTO
    /\ focusedBody # NoFocus
    /\ autoOrbit > 0
    /\ lastFrameAt = now
    /\ cameraPos # DefaultPos

\* C27: an AUTO frame advances the autopilot angle by
\* delta * 0.05 * simulationSpeed.
AutopilotScalesWithSpeed ==
    [][(lastFrameAt' # lastFrameAt /\ controlMode = AUTO) =>
          autoOrbit' =
            autoOrbit + ((now - lastFrameAt) * simulationSpeed) \div 20000]_vars

\* C24: a frame with a focus target that names no body gives what the same
\* frame gives with no focus target: the same camera position, the same
\* controls (target and enabling), the same autopilot angle.
InvalidFocusIsNoFocus ==
    [][(lastFrameAt' # lastFrameAt
        /\ focusedBody \notin (DOMAIN PLANET_DATA) \cup {NoFocus}) =>
          sceneFrame(FrameInput) =
            [sceneFrame([FrameInput EXCEPT !.focusedBody = NoFocus])
               EXCEPT !.focusedBody = focusedBody]]_vars

\* C25: after a two-hand tick the stored single-hand position is empty and
\* after a single-hand tick the stored two-hand distance is empty, so the
\* two are never both set; the first two-hand tick after a zero-hand or
\* single-hand tick (or after none) emits no ZOOM, and the first single-hand
\* tick after a zero-hand or two-hand tick (or after none) emits no ROTATE.
HandModesExclusive ==
    [][\A results \in FineInputs :
          TickWith(results) =>
             /\ Len(results) = 2 =>
                   /\ lastHandPos' = << >>
                   /\ (~lastTick.ran \/ lastTick.n # 2) =>
                         \A i \in 1..Len(lastTick'.calls) :
                            lastTick'.calls[i].type # "ZOOM"
             /\ Len(results) = 1 =>
                   /\ lastPinchDist' = << >>
                   /\ (~lastTick.ran \/ lastTick.n # 1) =>
                         \A i \in 1..Len(lastTick'.calls) :
                            lastTick'.calls[i].type # "ROTATE"
             /\ lastHandPos' = << >> \/ lastPinchDist' = << >>]_vars

\* a two-hand tick has run while a ROTATE of earlier single-hand ticks is
\* still live: the distance is stored, the single-hand position is empty
\* and the tick emitted nothing
HandModesExclusiveWitness ==
    /\ lastTick.ran /\ lastTick.n = 2
    /\ lastTick.calls = << >>
    /\ gestureRef.type = "ROTATE"
    /\ lastPinchDist # << >>
    /\ lastHandPos = << >>

\* C26: on every frame, for every body, the position the focus tracking
\* computes for it is the position the frame gives its mesh; and a tracking
\* frame with no transition in progress moves the controls' target a tenth
\* of the way toward the mesh of the focused body.
TrackedIsRendered ==
    [][lastFrameAt' # lastFrameAt =>
          LET rendered(id) == Vec(meshPos'[id][1], 0, meshPos'[id][2])
          IN  /\ \A id \in BodyIds :
                    orbitPosition(PLANET_DATA[id], now - StartClock,
                                  simulationSpeed) = rendered(id)
              /\ (focusedBody \in BodyIds /\ controlMode \in {MOUSE, KEYBOARD}
                  /\ tween = << >>) =>
                    controls'.target =
                      lerp(controls.target, rendered(focusedBody), 100)]_vars

\* the earth has been tracked at double speed on a frame without a
\* transition, and the target has left the origin
TrackedIsRenderedWitness ==
    /\ focusedBody = "earth"
    /\ simulationSpeed = 2000
    /\ tween = << >>
    /\ lastFrameAt = StartClock + 2 * 2100
    /\ meshPos["earth"] # << 750, 0 >>
    /\ controls.target # Origin

\* C28: in Hand mode a frame that finds in the gesture cell a Rotate or
\* Zoom gesture an earlier frame has already consumed, with no write of the
\* cell in between, leaves the accumulated rotation and the zoom radius
\* as they are.
LiveGestureAppliedOnce ==
    [][(lastFrameAt' # lastFrameAt /\ controlMode = HAND
        /\ gestureRef.type \in {"ROTATE", "ZOOM"} /\ lastTick.applied) =>
          /\ handState'.rotation = handState.rotation
          /\ handState'.zoom = handState.zoom]_vars

\* C29: at the start of every tick with a single hand the stored
\* single-hand position is empty or is the wrist position of the tick
\* before it, whatever that tick emitted.
StoredPosIsPreviousWrist ==
    [][\A results \in FineInputs :
          (Len(results) = 1 /\ TickWith(results)) =>
             \/ lastHandPos = << >>
             \/ lastHandPos = lastTick.wrist]_vars

\* C30: at most one video-sample callback is waiting for an animation frame
\* at any time.
AtMostOneLoop == LoopCount <= 1

\* C31: whichever of the two comes last, the step after which the control
\* mode is HAND and the landmark model is ready starts a stream acquisition.
HandReadyStartsAcquisition ==
    [][(controlMode' = HAND /\ isLoaded' = "ready"
        /\ ~(controlMode = HAND /\ isLoaded = "ready")) =>
          BagSize(pendingMedia') = BagSize(pendingMedia) + 1]_vars

====
